---------------------------- MODULE Spec2Model ----------------------------
(***************************************************************************)
(* mssh - Message Stream Shell (src/mssh.go).                              *)
(*                                                                         *)
(* A Go string is modelled as a sequence of one-character strings, so      *)
(* that indexing, slicing, splitting and trimming are computed the way     *)
(* the code computes them.  Positions are 1-based here and 0-based in Go.  *)
(***************************************************************************)
EXTENDS Integers, Sequences, FiniteSets, TLC

\* no connection; a nil *string is the empty list, a set one a one-line list
NoConn == 0
Nil == <<>>
Ptr(l) == <<l>>

(***************************************************************************)
(* Bounds of the model.                                                    *)
(***************************************************************************)
MaxConns == 2          \* connections the transport can hand out in one run
MaxTmplLen == 3        \* longest template drawn for the expansion harness
MaxArgs == 1           \* most arguments drawn for the expansion harness
MaxTokens == 3         \* most tokens after the type token of a drawn packet line

(***************************************************************************)
(* Program constants.                                                      *)
(***************************************************************************)
NestingLimit == 10     \* PushInput: shortcutNesting > 10
DefaultTimeout == 2    \* main: Timeout: 2 * time.Second

(***************************************************************************)
(* String helpers (package strings).                                       *)
(***************************************************************************)
Str_Message == <<"M", "e", "s", "s", "a", "g", "e">>
Str_Request == <<"R", "e", "q", "u", "e", "s", "t">>
Str_Type == <<"T", "y", "p", "e">>
Str_Name == <<"N", "a", "m", "e">>
Str_Login == <<"_", "L", "o", "g", "i", "n">>
Str_mssh == <<"m", "s", "s", "h">>
Str_Unknown == <<"-", "?", "-">>

\* s[from:] of Go with a 1-based first index
Drop(s, n) == SubSeq(s, n + 1, Len(s))

\* index of the first occurrence of character c in s, 0 when absent
IndexOf(s, c) ==
    IF \E i \in 1..Len(s) : s[i] = c
    THEN CHOOSE i \in 1..Len(s) : s[i] = c /\ \A j \in 1..(i - 1) : s[j] # c
    ELSE 0

Contains(s, c) == IndexOf(s, c) # 0

Cutset == {" ", "\t"}

RECURSIVE TrimLeft(_)
TrimLeft(s) ==
    IF s # <<>> /\ s[1] \in Cutset THEN TrimLeft(Tail(s)) ELSE s

RECURSIVE TrimRight(_)
TrimRight(s) ==
    IF s # <<>> /\ s[Len(s)] \in Cutset
    THEN TrimRight(SubSeq(s, 1, Len(s) - 1))
    ELSE s

\* strings.Trim(s, " \t")
Trim(s) == TrimRight(TrimLeft(s))

\* strings.Split(s, sep) for a one-character separator: never empty,
\* consecutive separators give empty pieces
RECURSIVE StrSplit(_, _)
StrSplit(s, sep) ==
    LET i == IndexOf(s, sep)
    IN  IF i = 0 THEN <<s>>
        ELSE <<SubSeq(s, 1, i - 1)>> \o StrSplit(Drop(s, i), sep)

\* strings.SplitN(s, sep, n) for n >= 1: the last piece is the unsplit rest
RECURSIVE StrSplitN(_, _, _)
StrSplitN(s, sep, n) ==
    LET i == IndexOf(s, sep)
    IN  IF n <= 1 \/ i = 0 THEN <<s>>
        ELSE <<SubSeq(s, 1, i - 1)>> \o StrSplitN(Drop(s, i), sep, n - 1)

(***************************************************************************)
(* Byte values.  Ascii lists the printable characters from 32 to 126 (the *)
(* grave accent, 96, by name); a difference of two bytes wraps modulo 256, *)
(* as the byte arithmetic of Go does.                                      *)
(***************************************************************************)
Ascii ==
  <<
    " ", "!", "\"", "#", "$", "%", "&", "'", "(", ")", "*", "+",
    ",", "-", ".", "/", "0", "1", "2", "3", "4", "5", "6", "7",
    "8", "9", ":", ";", "<", "=", ">", "?", "@", "A", "B", "C",
    "D", "E", "F", "G", "H", "I", "J", "K", "L", "M", "N", "O",
    "P", "Q", "R", "S", "T", "U", "V", "W", "X", "Y", "Z", "[",
    "\\", "]", "^", "_", "grave", "a", "b", "c", "d", "e", "f", "g",
    "h", "i", "j", "k", "l", "m", "n", "o", "p", "q", "r", "s",
    "t", "u", "v", "w", "x", "y", "z", "{", "|", "}", "~"
  >>

Code(c) == 31 + CHOOSE i \in 1..Len(Ascii) : Ascii[i] = c

ByteSub(a, b) == (a - b + 256) % 256

IsDigits(s) == s # <<>> /\ \A i \in 1..Len(s) : Code(s[i]) \in 48..57

RECURSIVE DigitsValue(_)
DigitsValue(s) ==
    IF s = <<>> THEN 0
    ELSE 10 * DigitsValue(SubSeq(s, 1, Len(s) - 1)) + (Code(s[Len(s)]) - 48)

\* strconv.ParseFloat(tok, 64), on tokens that are unsigned decimal
\* integers (the value in seconds) or contain no digit, sign, point,
\* exponent or special name at all (a syntax error)
ParseFloat(tok) ==
    IF IsDigits(tok) THEN [err |-> "nil", value |-> DigitsValue(tok)]
    ELSE [err |-> "ParseError", value |-> 0]

(***************************************************************************)
(* Split: encoding/csv reader with a space as Comma, reading the first     *)
(* record                                                                  *)
(* of a text that holds no newline.                                        *)
(***************************************************************************)
RECURSIVE CsvFields(_)
RECURSIVE CsvQuoted(_, _)

\* inside a quoted field: line is the text after the opening quote, buf
\* the field collected so far
CsvQuoted(line, buf) ==
    LET i == IndexOf(line, "\"")
    IN  IF i = 0
        THEN [err |-> "ErrQuote", fields |-> <<>>]
        ELSE LET got == buf \o SubSeq(line, 1, i - 1)
                 rest == Drop(line, i)
             IN  IF rest = <<>>
                 THEN [err |-> "nil", fields |-> <<got>>]
                 ELSE IF rest[1] = "\""
                 THEN CsvQuoted(Tail(rest), Append(got, "\""))
                 ELSE IF rest[1] = " "
                 THEN LET more == CsvFields(Tail(rest))
                      IN  IF more.err # "nil" THEN more
                          ELSE [err |-> "nil", fields |-> <<got>> \o more.fields]
                 ELSE [err |-> "ErrQuote", fields |-> <<>>]

CsvFields(line) ==
    IF line = <<>> \/ line[1] # "\""
    THEN LET i == IndexOf(line, " ")
             field == IF i > 0 THEN SubSeq(line, 1, i - 1) ELSE line
         IN  IF Contains(field, "\"")
             THEN [err |-> "ErrBareQuote", fields |-> <<>>]
             ELSE IF i = 0 THEN [err |-> "nil", fields |-> <<field>>]
             ELSE LET more == CsvFields(Drop(line, i))
                  IN  IF more.err # "nil" THEN more
                      ELSE [err |-> "nil", fields |-> <<field>> \o more.fields]
    ELSE CsvQuoted(Tail(line), <<>>)

\* func Split(s string) ([]string, error)
Split(s) ==
    IF s = <<>> THEN [err |-> "EOF", fields |-> <<>>] ELSE CsvFields(s)

(***************************************************************************)
(* Element Parser.  An element is [Name, Attributes, Children]; Attributes *)
(* is a Go map (a function on its set of keys), Children the ordered list  *)
(* of nested elements and literal values.  A result carries err = "nil",   *)
(* the tag of the returned error, or "panic" for a run-time panic (index   *)
(* or slice bounds out of range).                                          *)
(***************************************************************************)
EmptyMap == [k \in {} |-> <<>>]

\* m[key] = value on a Go map
MapSet(m, key, value) ==
    [k \in DOMAIN m \cup {key} |-> IF k = key THEN value ELSE m[k]]

NewElement(name) == [Name |-> name, Attributes |-> EmptyMap, Children |-> <<>>]

ChildElement(e) == [kind |-> "element", element |-> e]
ChildValue(v) == [kind |-> "value", value |-> v]

ParseResult(i, e, el) == [iToken |-> i, err |-> e, element |-> el]

\* one attribute-or-value token (the else branch of the loop body)
ParseLeaf(token, element) ==
    IF token[1] # "\"" /\ Contains(token, "=")
    THEN LET fields == StrSplit(token, "=")
         IN  [err |-> "nil",
              element |-> [element EXCEPT
                  !.Attributes = MapSet(@, fields[1], fields[2])]]
    ELSE IF token[1] = "\""
    THEN IF token[Len(token)] # "\""
         THEN [err |-> "MissingQuote", element |-> element]
         ELSE IF Len(token) < 2
         THEN [err |-> "panic", element |-> element]
         ELSE [err |-> "nil",
               element |-> [element EXCEPT
                   !.Children = Append(@, ChildValue(SubSeq(token, 2, Len(token) - 1)))]]
    ELSE [err |-> "nil",
          element |-> [element EXCEPT !.Children = Append(@, ChildValue(token))]]

RECURSIVE parseTokens(_, _, _)
parseTokens(tokens, iToken, element) ==
    IF iToken > Len(tokens) \/ tokens[iToken] = <<">">>
    THEN ParseResult(iToken, "nil", element)
    ELSE
      LET token == tokens[iToken] IN
      IF token = <<>>
      THEN ParseResult(-1, "panic", element)
      ELSE IF token[1] = "<"
      THEN
        IF Len(token) = 1 /\ iToken + 1 > Len(tokens)
        THEN ParseResult(-1, "MissingChildName", element)
        ELSE
          LET name == IF Len(token) > 1 THEN Tail(token) ELSE tokens[iToken + 1]
              iBody == IF Len(token) > 1 THEN iToken + 1 ELSE iToken + 2
              child == parseTokens(tokens, iBody, NewElement(name))
          IN  IF child.err # "nil"
              THEN ParseResult(-1, child.err, element)
              ELSE IF child.iToken > Len(tokens) \/ tokens[child.iToken] # <<">">>
              THEN ParseResult(-1, "MissingCloseChild", element)
              ELSE parseTokens(tokens, child.iToken + 1,
                     [element EXCEPT
                        !.Children = Append(@, ChildElement(child.element))])
      ELSE
        LET leaf == ParseLeaf(token, element)
        IN  IF leaf.err # "nil"
            THEN ParseResult(-1, leaf.err, element)
            ELSE parseTokens(tokens, iToken + 1, leaf.element)

\* the tokens parsePacketCommand splits the line into, tokens[1] the type
LineTokens(rawCommandLine) ==
    LET trimmed == Trim(rawCommandLine)
        command == IF trimmed # <<>> /\ trimmed[1] = "?"
                   THEN Trim(Tail(trimmed)) ELSE trimmed
    IN  StrSplit(command, " ")

\* parsePacketCommand without the endPoint it only stores in the packet
parsePacketCommand(rawCommandLine) ==
    LET trimmed == Trim(rawCommandLine) IN
    IF trimmed = <<>>
    THEN [err |-> "panic", element |-> NewElement(<<>>)]
    ELSE
      LET isRequest == trimmed[1] = "?"
          command == IF isRequest THEN Trim(Tail(trimmed)) ELSE trimmed
          tokens == StrSplit(command, " ")
          packetName == IF isRequest THEN Str_Request ELSE Str_Message
          root == [NewElement(packetName) EXCEPT
                      !.Attributes = MapSet(@, Str_Type, tokens[1])]
          r == parseTokens(tokens, 2, root)
      IN  [err |-> r.err, element |-> r.element]

(***************************************************************************)
(* Macro Expander: the substitution loop of ExpandShortcut.  tokens[1] is  *)
(* the shortcut name, tokens[k + 1] the k-th argument.                     *)
(***************************************************************************)
RECURSIVE ExpandFrom(_, _, _, _)
ExpandFrom(shortcut, tokens, i, result) ==
    IF i > Len(shortcut)
    THEN [err |-> "nil", result |-> result]
    ELSE IF shortcut[i] = "$" /\ i > 1 /\ shortcut[i - 1] # "\\" /\ i < Len(shortcut)
    THEN LET argIndex == ByteSub(Code(shortcut[i + 1]), 48)
         IN  IF argIndex < 1 \/ argIndex >= Len(tokens)
             THEN [err |-> "InvalidArgument", result |-> result]
             ELSE ExpandFrom(shortcut, tokens, i + 2, result \o tokens[argIndex + 1])
    ELSE ExpandFrom(shortcut, tokens, i + 1, Append(result, shortcut[i]))

ExpandTemplate(shortcut, tokens) == ExpandFrom(shortcut, tokens, 1, <<>>)

(***************************************************************************)
(* Lines the operator types (without the newline GetInput strips).         *)
(* InputLines are the lines of the full session; the two definitions that  *)
(* make a cycle a -> @b -> @a are typed in the shortcut session below.     *)
(***************************************************************************)
L_blank == <<>>    \* (0 spaces)
L_quit == <<"!", "q">>    \* !q
L_bang == <<"!">>    \* !
L_timeout == <<"!", "t">>    \* !t
L_timeout1 == <<"!", "t", " ", "1">>    \* !t 1
L_timeoutBad == <<"!", "t", " ", "x">>    \* !t x
L_connect == <<"!", "c">>    \* !c
L_connectH == <<"!", "c", " ", "h">>    \* !c h
L_disconnect == <<"!", "d">>    \* !d
L_name == <<"!", "n">>    \* !n
L_nameU == <<"!", "n", " ", "u">>    \* !n u
L_list == <<"!", "s">>    \* !s
L_showA == <<"!", "s", " ", "a">>    \* !s a
L_defA == <<"!", "s", " ", "a", " ", "@", "a">>    \* !s a @a
L_defAB == <<"!", "s", " ", "a", " ", "@", "b">>    \* !s a @b
L_defB == <<"!", "s", " ", "b", " ", "@", "a">>    \* !s b @a
L_login == <<"!", "l">>    \* !l
L_unsupported == <<"!", "x">>    \* !x
L_runA == <<"@", "a">>    \* @a
L_previewA == <<"@", "?", "a">>    \* @?a
L_macroSpace == <<"@", " ">>    \* @ 
L_macroQuotes == <<"@", "\"", "\"">>    \* @""
L_macroNone == <<"@">>    \* @
L_msg == <<"m">>    \* m
L_req == <<"?", "m">>    \* ?m
L_space == <<" ">>    \* (1 spaces)
L_twoSpaces == <<"m", " ", " ", "k">>    \* m  k
L_loneQuote == <<"m", " ", "\"">>    \* m "
L_openChild == <<"m", " ", "<", "c">>    \* m <c
L_tree == <<"m", " ", "k", "=", "v", " ", "<", "c", " ", ">">>    \* m k=v <c >

InputLines ==
    {L_blank, L_quit, L_bang, L_timeout, L_timeout1,
     L_timeoutBad, L_connect, L_connectH, L_disconnect, L_name,
     L_nameU, L_list, L_showA, L_defA, L_login,
     L_unsupported, L_runA, L_previewA, L_macroSpace, L_macroQuotes,
     L_macroNone, L_msg, L_req, L_space, L_twoSpaces,
     L_loneQuote, L_openChild, L_tree}

Str_srv == <<"s", "r", "v">>
Str_NotOpen == <<"-", "-", "N", "o", "t", " ", "o", "p", "e", "n", "-", "-">>


(***************************************************************************)
(* State.                                                                  *)
(***************************************************************************)
VARIABLES
    EndPoint,           \* State.EndPoint: NilEndPoint or [conn, name]
    Timeout,            \* State.Timeout, in seconds
    Name,               \* State.Name
    Shortcuts,          \* State.Shortcuts: name -> template
    pendingShortcut,    \* State.pendingShortcut: Nil or Ptr(line)
    shortcutNesting,    \* State.shortcutNesting
    connectedTo,        \* State.connectedTo
    pc,                 \* position of the main goroutine
    line,               \* main: line
    err,                \* main: err
    connection,         \* connect: the connection just dialed
    out,                \* the last message written to standard output
    inputSrc,           \* where GetInput took the current line from
    conns,              \* transport: every connection, by id
    notify,             \* transport: connections whose close is not yet notified
    calls,              \* transport calls made since the last GetInput
    store               \* the lines of mssh-shortcuts.txt

session == <<EndPoint, Timeout, Name, Shortcuts, pendingShortcut,
             shortcutNesting, connectedTo>>
loopVars == <<pc, line, err, connection, out, inputSrc>>
world == <<conns, notify, calls, store>>
vars == <<session, loopVars, world>>

ConnIds == 1..MaxConns

\* a nil *ms.EndPoint, and the EndPoint NewEndPoint(name, connection) makes
NilEndPoint == [conn |-> NoConn, name |-> <<>>]
NewEndPoint(name, c) == [conn |-> c, name |-> name]

Msg(tag, a, b) == [tag |-> tag, a |-> a, b |-> b]
Say(tag) == Msg(tag, <<>>, <<>>)

Call(op, c, element, address) ==
    [op |-> op, conn |-> c, element |-> element, address |-> address]

NoElement == NewElement(<<>>)

Running == pc \notin {"Quit", "Panic"}

\* main: the construction of State, loadShortcuts finding no file
Init ==
    /\ EndPoint = NilEndPoint
    /\ Timeout = DefaultTimeout
    /\ Name = Str_mssh
    /\ Shortcuts = EmptyMap
    /\ pendingShortcut = Nil
    /\ shortcutNesting = 0
    /\ connectedTo = Str_Unknown
    /\ pc = "GetInput"
    /\ line = <<>>
    /\ err = "nil"
    /\ connection = NoConn
    /\ out = Say("Start")
    /\ inputSrc = "none"
    /\ conns = [c \in ConnIds |-> [status |-> "unused", wrapped |-> FALSE]]
    /\ notify = {}
    /\ calls = <<>>
    /\ store = {}

(***************************************************************************)
(* main: what the loop does with the error Execute returned.  A panic      *)
(* aborts the process.                                                     *)
(***************************************************************************)
Return(e, msg) ==
    /\ err' = e
    /\ UNCHANGED line
    /\ pc' = CASE e = "Quit" -> "Quit"
               [] e = "panic" -> "Panic"
               [] OTHER -> "GetInput"
    /\ out' = IF e \in {"nil", "Quit", "panic"} THEN msg ELSE Say("Error")

(***************************************************************************)
(* GetInput.                                                               *)
(***************************************************************************)
PromptName == IF EndPoint = NilEndPoint THEN Str_NotOpen ELSE EndPoint.name

\* variants of NestingAfterGetInput: a reset on every read, and no reset
NestingAfterGetInput_AlwaysZero ==
    IF pendingShortcut = Nil THEN 0 ELSE 0

NestingAfterGetInput_NoReset == shortcutNesting

\* the nesting depth GetInput leaves
NestingAfterGetInput ==
    IF pendingShortcut = Nil THEN 0 ELSE shortcutNesting

\* GetInput, the operator typing one of the given lines (or closing the input)
GetInputFrom(typed) ==
    /\ pc = "GetInput"
    /\ calls' = <<>>
    /\ connection' = NoConn
    /\ IF pendingShortcut = Nil
       THEN /\ inputSrc' = "operator"
            /\ UNCHANGED pendingShortcut
            /\ \/ \E l \in typed :
                    /\ line' = l
                    /\ err' = "nil"
                    /\ pc' = "Execute"
                    /\ out' = Msg("Prompt", PromptName, connectedTo)
               \/ /\ line' = <<>>
                  /\ err' = "EOF"
                  /\ pc' = "GetInput"
                  /\ out' = Say("Error")
       ELSE /\ line' = pendingShortcut[1]
            /\ pendingShortcut' = Nil
            /\ inputSrc' = "pending"
            /\ err' = "nil"
            /\ pc' = "Execute"
            /\ out' = Msg("Replay", pendingShortcut[1], <<>>)
    /\ shortcutNesting' = NestingAfterGetInput
    /\ UNCHANGED <<EndPoint, Timeout, Name, Shortcuts, connectedTo,
                   conns, notify, store>>

GetInput == GetInputFrom(InputLines)

(***************************************************************************)
(* PushInput: the counter, the buffer and the error it leaves.             *)
(***************************************************************************)
\* variant of PushInput without the limit
PushInput_NoReject(l) ==
    [shortcutNesting |-> shortcutNesting + 1, pendingShortcut |-> Ptr(l),
     err |-> "nil"]

PushInput(l) ==
    LET n == shortcutNesting + 1
    IN  IF n > NestingLimit
        THEN [shortcutNesting |-> n, pendingShortcut |-> Nil,
              err |-> "RecursionLimit"]
        ELSE [shortcutNesting |-> n, pendingShortcut |-> Ptr(l), err |-> "nil"]

(***************************************************************************)
(* ExpandShortcut, as the outcome it computes from the line: err, whether  *)
(* it only shows the expansion, and the expansion.                         *)
(***************************************************************************)
ExpandOutcome(l) ==
    LET sp == Split(Tail(l))
        NoResult(e) == [err |-> e, showOnly |-> FALSE, result |-> <<>>]
    IN  IF sp.err # "nil" THEN NoResult(sp.err)
        ELSE IF sp.fields[1] = <<>> THEN NoResult("panic")
        ELSE
          LET tokens == sp.fields
              showOnly == tokens[1][1] = "?"
              shortcutName == IF showOnly THEN Tail(tokens[1]) ELSE tokens[1]
          IN  IF shortcutName \notin DOMAIN Shortcuts
              THEN NoResult("UndefinedShortcut")
              ELSE LET e == ExpandTemplate(Shortcuts[shortcutName], tokens)
                   IN  IF e.err # "nil" THEN NoResult(e.err)
                       ELSE [err |-> "nil", showOnly |-> showOnly,
                             result |-> e.result]

IsMacro(l) == l # <<>> /\ l[1] = "@"
IsCommand(l) == l # <<>> /\ l[1] = "!"
IsPacketLine(l) == l # <<>> /\ l[1] \notin {"!", "@"}

\* variant of Deliver that pushes a preview too
Deliver_PushesPreview(showOnly, result) ==
    LET p == PushInput(result)
    IN  [shortcutNesting |-> p.shortcutNesting,
         pendingShortcut |-> p.pendingShortcut,
         err |-> p.err,
         out |-> IF showOnly THEN Msg("Preview", result, <<>>) ELSE out]

\* the end of ExpandShortcut: show the expansion, or push it
Deliver(showOnly, result) ==
    IF showOnly
    THEN [shortcutNesting |-> shortcutNesting,
          pendingShortcut |-> pendingShortcut,
          err |-> "nil", out |-> Msg("Preview", result, <<>>)]
    ELSE LET p == PushInput(result)
         IN  [shortcutNesting |-> p.shortcutNesting,
              pendingShortcut |-> p.pendingShortcut,
              err |-> p.err, out |-> out]

ExpandShortcut ==
    /\ pc = "Execute"
    /\ IsMacro(line)
    /\ LET o == ExpandOutcome(line) IN
       IF o.err # "nil"
       THEN /\ Return(o.err, out)
            /\ UNCHANGED <<pendingShortcut, shortcutNesting>>
       ELSE LET d == Deliver(o.showOnly, o.result) IN
            /\ shortcutNesting' = d.shortcutNesting
            /\ pendingShortcut' = d.pendingShortcut
            /\ Return(d.err, d.out)
    /\ UNCHANGED <<EndPoint, Timeout, Name, Shortcuts, connectedTo,
                   connection, inputSrc, world>>

ExecuteBlank ==
    /\ pc = "Execute"
    /\ line = <<>>
    /\ Return("nil", out)
    /\ UNCHANGED <<session, connection, inputSrc, world>>

(***************************************************************************)
(* HandleCommand.                                                          *)
(***************************************************************************)
CmdTokens == StrSplit(Tail(line), " ")

\* tokens[0][0], "panic" when tokens[0] is empty
CmdKey == IF CmdTokens[1] = <<>> THEN "panic" ELSE CmdTokens[1][1]

IsCmd(k) == pc = "Execute" /\ IsCommand(line) /\ CmdKey = k

\* tokens[0][0] on an empty token, tokens[1] on a one-token command
CommandPanic ==
    /\ pc = "Execute"
    /\ IsCommand(line)
    /\ \/ CmdKey = "panic"
       \/ CmdKey \in {"t", "c", "n"} /\ Len(CmdTokens) < 2
    /\ Return("panic", out)
    /\ UNCHANGED <<session, connection, inputSrc, world>>

Unsupported ==
    /\ pc = "Execute"
    /\ IsCommand(line)
    /\ CmdKey \notin {"panic", "q", "t", "c", "d", "n", "s", "l"}
    /\ Return("Unsupported", out)
    /\ UNCHANGED <<session, connection, inputSrc, world>>

\* variant of ClosedConns that leaves the connection open
ClosedConns_StaysOpen(c) == conns

\* the connections after EndPoint.Close() on connection c
ClosedConns(c) == [conns EXCEPT ![c].status = "closed"]

\* disconnect on a handle that is set: Close is called, returns closeErr,
\* and the transport may notify the close later; the handle is cleared
disconnect(closeErr, willNotify) ==
    /\ calls' = Append(calls, Call("Close", EndPoint.conn, NoElement, <<>>))
    /\ conns' = ClosedConns(EndPoint.conn)
    /\ notify' = IF willNotify /\ conns[EndPoint.conn].status = "open"
                 THEN notify \cup {EndPoint.conn} ELSE notify
    /\ EndPoint' = NilEndPoint

CloseResults == {"nil", "CloseError"}

Quit ==
    /\ IsCmd("q")
    /\ IF EndPoint # NilEndPoint
       THEN /\ \E closeErr \in CloseResults, willNotify \in BOOLEAN :
                 disconnect(closeErr, willNotify)
            /\ Return("Quit", Say("Disconnecting"))
       ELSE /\ Return("Quit", out)
            /\ UNCHANGED <<EndPoint, conns, notify, calls>>
    /\ UNCHANGED <<Timeout, Name, Shortcuts, pendingShortcut, shortcutNesting,
                   connectedTo, connection, inputSrc, store>>

\* the disconnect command; with no handle the call goes through a nil
\* pointer into the transport library
DisconnectCmd ==
    /\ IsCmd("d")
    /\ IF EndPoint # NilEndPoint
       THEN \E closeErr \in CloseResults, willNotify \in BOOLEAN :
               /\ disconnect(closeErr, willNotify)
               /\ Return(closeErr, Say("Disconnecting"))
       ELSE /\ \E e \in CloseResults \cup {"panic"} :
                  Return(e, Say("Disconnecting"))
            /\ UNCHANGED <<EndPoint, conns, notify, calls>>
    /\ UNCHANGED <<Timeout, Name, Shortcuts, pendingShortcut, shortcutNesting,
                   connectedTo, connection, inputSrc, store>>

SetTimeout ==
    /\ IsCmd("t")
    /\ Len(CmdTokens) >= 2
    /\ LET r == ParseFloat(CmdTokens[2]) IN
       IF r.err # "nil"
       THEN Return(r.err, out) /\ UNCHANGED Timeout
       ELSE Timeout' = r.value /\ Return("nil", Say("TimeoutSet"))
    /\ UNCHANGED <<EndPoint, Name, Shortcuts, pendingShortcut, shortcutNesting,
                   connectedTo, connection, inputSrc, world>>

SetName ==
    /\ IsCmd("n")
    /\ Len(CmdTokens) >= 2
    /\ Name' = CmdTokens[2]
    /\ Return("nil", Msg("NameSet", CmdTokens[2], <<>>))
    /\ UNCHANGED <<EndPoint, Timeout, Shortcuts, pendingShortcut,
                   shortcutNesting, connectedTo, connection, inputSrc,
                   world>>

(***************************************************************************)
(* Shortcut store: saveShortcuts writes one "name:definition" line per     *)
(* entry of the table.                                                     *)
(***************************************************************************)
StoreLine(name, definition) == name \o <<":">> \o definition

SavedLines(table) == {StoreLine(n, table[n]) : n \in DOMAIN table}

\* os.Create succeeds, fails because a directory does not exist (reported
\* as success, nothing written), or fails otherwise
SaveResults == {"nil", "NotExist", "SaveError"}

Shortcut ==
    /\ IsCmd("s")
    /\ LET shortcutTokens == StrSplitN(line, " ", 3) IN
       IF Len(shortcutTokens) = 1
       THEN /\ Return("nil", Say("List"))
            /\ UNCHANGED <<Shortcuts, store>>
       ELSE IF Len(shortcutTokens) = 2
       THEN /\ IF shortcutTokens[2] \in DOMAIN Shortcuts
               THEN Return("nil", Msg("Defined", shortcutTokens[2],
                                      Shortcuts[shortcutTokens[2]]))
               ELSE Return("nil", Msg("NoDefinition", shortcutTokens[2], <<>>))
            /\ UNCHANGED <<Shortcuts, store>>
       ELSE /\ Shortcuts' = MapSet(Shortcuts, shortcutTokens[2], shortcutTokens[3])
            /\ \E saved \in SaveResults :
                 /\ store' = IF saved = "nil" THEN SavedLines(Shortcuts') ELSE store
                 /\ Return(IF saved = "SaveError" THEN saved ELSE "nil",
                           Msg("Defined", shortcutTokens[2], shortcutTokens[3]))
    /\ UNCHANGED <<EndPoint, Timeout, Name, pendingShortcut, shortcutNesting,
                   connectedTo, connection, inputSrc, conns, notify,
                   calls>>

(***************************************************************************)
(* connect: the dial, then the close of the old handle and the new         *)
(* EndPoint with its two callbacks.                                        *)
(***************************************************************************)
FreeConn == CHOOSE c \in ConnIds :
                /\ conns[c].status = "unused"
                /\ \A d \in ConnIds : conns[d].status = "unused" => c <= d

ConnectDial ==
    /\ IsCmd("c")
    /\ Len(CmdTokens) >= 2
    /\ calls' = Append(calls, Call("Dial", NoConn, NoElement, CmdTokens[2]))
    /\ \/ /\ Return("DialError", out)
          /\ UNCHANGED <<conns, connection>>
       \/ /\ \E c \in ConnIds : conns[c].status = "unused"
          /\ conns' = [conns EXCEPT ![FreeConn].status = "open"]
          /\ connection' = FreeConn
          /\ pc' = "connect"
          /\ UNCHANGED <<line, err, out>>
    /\ UNCHANGED <<session, inputSrc, notify, store>>

ConnectFinish ==
    /\ pc = "connect"
    /\ \E closeErr \in CloseResults, willNotify \in BOOLEAN :
         IF EndPoint # NilEndPoint /\ closeErr # "nil"
         THEN /\ disconnect(closeErr, willNotify)
              /\ Return(closeErr, Say("Disconnecting"))
         ELSE /\ IF EndPoint # NilEndPoint
                 THEN /\ calls' = Append(calls, Call("Close", EndPoint.conn, NoElement, <<>>))
                      /\ notify' = IF willNotify /\ conns[EndPoint.conn].status = "open"
                                   THEN notify \cup {EndPoint.conn} ELSE notify
                      /\ conns' = [ClosedConns(EndPoint.conn) EXCEPT
                                       ![connection].wrapped = TRUE]
                 ELSE /\ conns' = [conns EXCEPT ![connection].wrapped = TRUE]
                      /\ UNCHANGED <<calls, notify>>
              /\ EndPoint' = NewEndPoint(Name, connection)
              /\ Return("nil", Say("Connected"))
    /\ connection' = NoConn
    /\ UNCHANGED <<Timeout, Name, Shortcuts, pendingShortcut, shortcutNesting,
                   connectedTo, inputSrc, store>>

(***************************************************************************)
(* Login: a request carrying the name of the EndPoint.                     *)
(***************************************************************************)
\* variant of LoginElement that carries the Name of the session
LoginElement_SessionName(name) ==
    [Name |-> Str_Request,
     Attributes |-> MapSet(MapSet(EmptyMap, Str_Type, Str_Login), Str_Name, Name),
     Children |-> <<>>]

LoginElement(name) ==
    [Name |-> Str_Request,
     Attributes |-> MapSet(MapSet(EmptyMap, Str_Type, Str_Login), Str_Name, name),
     Children |-> <<>>]

Login ==
    /\ IsCmd("l")
    /\ IF EndPoint = NilEndPoint
       THEN /\ Return("NotConnectedLogin", out)
            /\ UNCHANGED calls
       ELSE /\ calls' = Append(calls, Call("Submit", EndPoint.conn,
                                 LoginElement(EndPoint.name), <<>>))
            /\ pc' = "LoginWait"
            /\ UNCHANGED <<line, err, out>>
    /\ UNCHANGED <<session, connection, inputSrc, conns, notify, store>>

\* the Name attribute of a reply, "-?-" when the reply has none
ReplyNames == {Str_srv, Str_Unknown}

SubmitErrors == {"Timeout", "TransportError"}

LoginReturn ==
    /\ pc = "LoginWait"
    /\ \/ \E peer \in ReplyNames :
            /\ connectedTo' = peer
            /\ Return("nil", Say("LoginReply"))
       \/ \E e \in SubmitErrors :
            /\ Return(e, out)
            /\ UNCHANGED connectedTo
    /\ UNCHANGED <<EndPoint, Timeout, Name, Shortcuts, pendingShortcut,
                   shortcutNesting, connection, inputSrc, world>>

(***************************************************************************)
(* Execute on a literal packet line.                                       *)
(***************************************************************************)
\* variant of PacketStep that sends a request as a one-way packet
PacketStep_AlwaysSend(ep, l) ==
    IF ep = NilEndPoint
    THEN [err |-> "NotConnected", op |-> "none", element |-> NoElement]
    ELSE LET packet == parsePacketCommand(l) IN
         IF packet.err # "nil"
         THEN [err |-> packet.err, op |-> "none", element |-> NoElement]
         ELSE [err |-> "nil", op |-> "Send", element |-> packet.element]

\* variant of PacketStep that parses and sends without looking at the handle
PacketStep_NoHandleCheck(ep, l) ==
    LET packet == parsePacketCommand(l) IN
    IF packet.err # "nil"
    THEN [err |-> packet.err, op |-> "none", element |-> NoElement]
    ELSE IF packet.element.Name # Str_Request
    THEN [err |-> "nil", op |-> "Send", element |-> packet.element]
    ELSE [err |-> "nil", op |-> "Submit", element |-> packet.element]

\* what Execute decides for a packet line l with handle ep: the error it
\* returns at once, or the transport call it makes with the parsed element
PacketStep(ep, l) ==
    IF ep = NilEndPoint
    THEN [err |-> "NotConnected", op |-> "none", element |-> NoElement]
    ELSE LET packet == parsePacketCommand(l) IN
         IF packet.err # "nil"
         THEN [err |-> packet.err, op |-> "none", element |-> NoElement]
         ELSE IF packet.element.Name # Str_Request
         THEN [err |-> "nil", op |-> "Send", element |-> packet.element]
         ELSE [err |-> "nil", op |-> "Submit", element |-> packet.element]

ExecutePacket ==
    /\ pc = "Execute"
    /\ IsPacketLine(line)
    /\ LET step == PacketStep(EndPoint, line) IN
       IF step.op = "none"
       THEN /\ Return(step.err, out)
            /\ UNCHANGED calls
       ELSE IF step.op = "Send"
       THEN /\ calls' = Append(calls, Call("Send", EndPoint.conn, step.element, <<>>))
            /\ \E e \in {"nil", "TransportError"} : Return(e, Say("Sending"))
       ELSE /\ calls' = Append(calls, Call("Submit", EndPoint.conn, step.element, <<>>))
            /\ pc' = "SubmitWait"
            /\ out' = Say("Submitting")
            /\ UNCHANGED <<line, err>>
    /\ UNCHANGED <<session, connection, inputSrc, conns, notify, store>>

\* <-packet.Submit(ctx): the reply, or the error when the timeout elapses
\* or the transport fails
SubmitReturn ==
    /\ pc = "SubmitWait"
    /\ \/ Return("nil", Say("GotReply"))
       \/ \E e \in SubmitErrors : Return(e, out)
    /\ UNCHANGED <<session, connection, inputSrc, world>>

(***************************************************************************)
(* The transport's goroutine: the peer closes a connection, and the two    *)
(* callbacks registered in connect.                                        *)
(***************************************************************************)
HasEndPoint(c) == conns[c].wrapped

PeerCloses(c) ==
    /\ Running
    /\ conns[c].status = "open"
    /\ conns' = [conns EXCEPT ![c].status = "closed"]
    /\ notify' = notify \cup {c}
    /\ UNCHANGED <<session, loopVars, calls, store>>

OnPacketReceived(c) ==
    /\ Running
    /\ HasEndPoint(c)
    /\ conns[c].status = "open"
    /\ out' = Say("Received")
    /\ UNCHANGED <<session, pc, line, err, connection, inputSrc, world>>

OnClose(c) ==
    /\ Running
    /\ HasEndPoint(c)
    /\ c \in notify
    /\ EndPoint' = NilEndPoint
    /\ notify' = notify \ {c}
    /\ UNCHANGED <<Timeout, Name, Shortcuts, pendingShortcut, shortcutNesting,
                   connectedTo, loopVars, conns, calls, store>>

(***************************************************************************)
(* The program.                                                            *)
(***************************************************************************)
Next ==
    \/ GetInput
    \/ ExecuteBlank
    \/ CommandPanic
    \/ Unsupported
    \/ Quit
    \/ DisconnectCmd
    \/ SetTimeout
    \/ SetName
    \/ Shortcut
    \/ ConnectDial
    \/ ConnectFinish
    \/ Login
    \/ LoginReturn
    \/ ExpandShortcut
    \/ ExecutePacket
    \/ SubmitReturn
    \/ \E c \in ConnIds : PeerCloses(c)
    \/ \E c \in ConnIds : OnPacketReceived(c)
    \/ \E c \in ConnIds : OnClose(c)

Spec == Init /\ [][Next]_vars

(***************************************************************************)
(* The session of an operator who only defines, shows, previews and runs   *)
(* shortcuts, with no connection.  The main goroutine is always scheduled: *)
(* the replay of a pending line and every step of Execute happen when they *)
(* can.  Only the read of a line from the operator may wait forever.       *)
(***************************************************************************)
ReplayLines ==
    {L_blank, L_list, L_showA, L_defA, L_defAB, L_defB, L_runA, L_previewA,
     L_macroNone}

GetInputReplay == GetInputFrom(ReplayLines)

NextReplay ==
    \/ GetInputReplay
    \/ ExecuteBlank
    \/ Shortcut
    \/ ExpandShortcut

ReplaySpec ==
    /\ Init
    /\ [][NextReplay]_vars
    /\ WF_vars(GetInputReplay /\ pendingShortcut # Nil)
    /\ WF_vars(ExecuteBlank \/ Shortcut \/ ExpandShortcut)

(***************************************************************************)
(* Macro expansion on its own: one shortcut p with any template over       *)
(* TmplAlphabet, invoked by a line read from the operator with any         *)
(* argument list.                                                          *)
(***************************************************************************)
TmplAlphabet == {"$", "0", "1", "x", "\\"}
ArgTokens == {<<"k">>, <<"a", "b">>}
Str_p == <<"p">>

SeqsUpTo(S, n) == UNION {[1..k -> S] : k \in 0..n}

Templates == SeqsUpTo(TmplAlphabet, MaxTmplLen)
ArgLists == SeqsUpTo(ArgTokens, MaxArgs)

RECURSIVE JoinArgs(_)
JoinArgs(as) ==
    IF as = <<>> THEN <<>> ELSE <<" ">> \o Head(as) \o JoinArgs(Tail(as))

MacroLine(name, as) == <<"@">> \o name \o JoinArgs(as)

InitExpand ==
    /\ EndPoint = NilEndPoint
    /\ Timeout = DefaultTimeout
    /\ Name = Str_mssh
    /\ \E t \in Templates, as \in ArgLists :
          /\ Shortcuts = MapSet(EmptyMap, Str_p, t)
          /\ line = MacroLine(Str_p, as)
    /\ pendingShortcut = Nil
    /\ shortcutNesting = 0
    /\ connectedTo = Str_Unknown
    /\ pc = "Execute"
    /\ err = "nil"
    /\ connection = NoConn
    /\ out = Msg("Prompt", Str_NotOpen, Str_Unknown)
    /\ inputSrc = "operator"
    /\ conns = [c \in ConnIds |-> [status |-> "unused", wrapped |-> FALSE]]
    /\ notify = {}
    /\ calls = <<>>
    /\ store = SavedLines(Shortcuts)

NextExpand == ExpandShortcut

ExpandSpec == InitExpand /\ [][NextExpand]_vars

(***************************************************************************)
(* The shortcut store across a restart.  The file holds the lines that     *)
(* saveShortcuts wrote, in the order the iteration over the map produced   *)
(* (any order), each ended by a newline; loadShortcuts splits the content  *)
(* at the newlines, which leaves an empty last piece.                      *)
(***************************************************************************)
RECURSIVE LoadFrom(_, _, _)
LoadFrom(lines, i, table) ==
    IF i > Len(lines) THEN [err |-> "nil", table |-> table]
    ELSE IF lines[i] = <<>> THEN LoadFrom(lines, i + 1, table)
    ELSE LET shortcut == StrSplitN(lines[i], ":", 2)
         IN  IF Len(shortcut) < 2
             THEN [err |-> "InvalidDefinition", table |-> table]
             ELSE LoadFrom(lines, i + 1, MapSet(table, shortcut[1], shortcut[2]))

\* loadShortcuts on a file that exists, given the pieces of its content
loadShortcuts(lines) == LoadFrom(lines, 1, EmptyMap)

\* the contents a file with the given set of lines can have
FileContents(written) ==
    {Append(f, <<>>) : f \in {g \in [1..Cardinality(written) -> written] :
                                 \A l \in written : \E i \in DOMAIN g : g[i] = l}}

L_showAB == <<"!", "s", " ", "a", ":", "b">>    \* !s a:b
L_defAC == <<"!", "s", " ", "a", " ", "c">>    \* !s a c
L_defABC == <<"!", "s", " ", "a", ":", "b", " ", "c">>    \* !s a:b c
L_defA_BC == <<"!", "s", " ", "a", " ", "b", ":", "c">>    \* !s a b:c
L_defWords == <<"!", "s", " ", "a", " ", "c", " ", "d">>    \* !s a c d

StoreLines ==
    {L_list, L_showA, L_showAB, L_defAC, L_defABC, L_defA_BC, L_defWords,
     L_quit}

GetInputStore == GetInputFrom(StoreLines)

\* the process has ended with the quit command and is started again: main
\* builds a new State and loadShortcuts reads the file
Restart ==
    /\ pc = "Quit"
    /\ EndPoint' = NilEndPoint
    /\ Timeout' = DefaultTimeout
    /\ Name' = Str_mssh
    /\ \E content \in FileContents(store) :
          LET loaded == loadShortcuts(content) IN
          /\ Shortcuts' = IF store = {} THEN EmptyMap ELSE loaded.table
          /\ out' = IF loaded.err = "nil" THEN Say("Start") ELSE Say("Error")
    /\ pendingShortcut' = Nil
    /\ shortcutNesting' = 0
    /\ connectedTo' = Str_Unknown
    /\ pc' = "GetInput"
    /\ line' = <<>>
    /\ err' = "nil"
    /\ connection' = NoConn
    /\ inputSrc' = "none"
    /\ conns' = [c \in ConnIds |-> [status |-> "unused", wrapped |-> FALSE]]
    /\ notify' = {}
    /\ calls' = <<>>
    /\ UNCHANGED store

NextStore ==
    \/ GetInputStore
    \/ Shortcut
    \/ Quit
    \/ Restart

StoreSpec == Init /\ [][NextStore]_vars

(***************************************************************************)
(* Packet lines on their own: a connected session executes one packet line *)
(* read from the operator, a type token m (with or without the request     *)
(* marker) followed by any tokens of TokAlphabet separated by one space.   *)
(***************************************************************************)
TokAlphabet ==
    {<<"k", "=", "v">>, <<"k", "=", "a", "=", "b">>, <<"x">>,
     <<"\"", "x", "\"">>, <<"\"", "\"">>, <<"\"", "a">>, <<"b", "\"">>,
     <<"<", "c">>, <<"<">>, <<">">>}

TokenLists == SeqsUpTo(TokAlphabet, MaxTokens)

PacketLine(isRequest, toks) ==
    (IF isRequest THEN <<"?">> ELSE <<>>) \o <<"m">> \o JoinArgs(toks)

PacketLines == {PacketLine(q, toks) : q \in BOOLEAN, toks \in TokenLists}

\* the state after a first connect command, with a packet line read
InitParse ==
    /\ EndPoint = NewEndPoint(Str_mssh, 1)
    /\ Timeout = DefaultTimeout
    /\ Name = Str_mssh
    /\ Shortcuts = EmptyMap
    /\ pendingShortcut = Nil
    /\ shortcutNesting = 0
    /\ connectedTo = Str_Unknown
    /\ pc = "Execute"
    /\ line \in PacketLines
    /\ err = "nil"
    /\ connection = NoConn
    /\ out = Msg("Prompt", Str_mssh, Str_Unknown)
    /\ inputSrc = "operator"
    /\ conns = [c \in ConnIds |->
                  IF c = 1 THEN [status |-> "open", wrapped |-> TRUE]
                  ELSE [status |-> "unused", wrapped |-> FALSE]]
    /\ notify = {}
    /\ calls = <<>>
    /\ store = {}

NextParse ==
    \/ ExecutePacket
    \/ SubmitReturn

ParseSpec == InitParse /\ [][NextParse]_vars

(***************************************************************************)
(* Properties.                                                             *)
(***************************************************************************)

\* C1, as stated: in every reachable state shortcutNesting is at most 10.
C1_NestingAtMostLimit == shortcutNesting <= NestingLimit

\* C1, amended: in every reachable state shortcutNesting is at most 11, and
\* it is 11 only in the state the rejected push leaves (no pending line, the
\* recursion-limit error returned, the loop back at GetInput); whenever a
\* pending line is buffered or being executed the depth is at most 10.
C1_NestingBound ==
    /\ shortcutNesting <= NestingLimit + 1
    /\ shortcutNesting > NestingLimit =>
          /\ pendingShortcut = Nil
          /\ pc = "GetInput"
          /\ err = "RecursionLimit"

C1_Witness ==
    /\ shortcutNesting = NestingLimit + 1
    /\ err = "RecursionLimit"
    /\ pendingShortcut = Nil

\* C2: a replay chain of a shortcut that re-invokes itself always ends: from
\* any state with a pending expansion the loop reaches a state with an
\* empty buffer in which it awaits input and is not terminated; the push
\* that takes the depth past 10 returns the recursion-limit error and leaves
\* the buffer empty; and a GetInput on an empty buffer is a read from the
\* operator that starts with depth 0.
C2_RecursionEnds ==
    /\ (pendingShortcut # Nil) ~> (pendingShortcut = Nil /\ pc = "GetInput")
    /\ [][(pc = "Execute" /\ IsMacro(line) /\ shortcutNesting' > NestingLimit)
            => /\ err' = "RecursionLimit"
               /\ pendingShortcut' = Nil
               /\ pc' = "GetInput"]_vars
    /\ [][(pc = "GetInput" /\ pendingShortcut = Nil /\ pc' = "Execute")
            => shortcutNesting' = 0 /\ inputSrc' = "operator"]_vars

\* the recursion a -> @b, b -> @a has been cut by the rejected push
C2_Witness ==
    /\ DOMAIN Shortcuts = {<<"a">>, <<"b">>}
    /\ Shortcuts[<<"a">>] = <<"@", "b">>
    /\ Shortcuts[<<"b">>] = <<"@", "a">>
    /\ inputSrc = "pending"
    /\ line \in {<<"@", "a">>, <<"@", "b">>}
    /\ err = "RecursionLimit"
    /\ pendingShortcut = Nil
    /\ pc = "GetInput"

\* C3: GetInput with a pending line returns exactly that line, empties the
\* buffer, keeps the depth and reads nothing from the operator; with an
\* empty buffer it sets the depth to zero and reads a line of the operator.
\* The depth grows only by one, in the step of a macro line whose expansion
\* is pushed.
C3_GetInputFrame ==
    /\ [][(pc = "GetInput" /\ pc' = "Execute") =>
            IF pendingShortcut # Nil
            THEN /\ line' = pendingShortcut[1]
                 /\ pendingShortcut' = Nil
                 /\ shortcutNesting' = shortcutNesting
                 /\ inputSrc' = "pending"
            ELSE /\ shortcutNesting' = 0
                 /\ inputSrc' = "operator"
                 /\ line' \in InputLines
                 /\ pendingShortcut' = Nil]_vars
    /\ [][shortcutNesting' > shortcutNesting =>
            /\ pc = "Execute"
            /\ IsMacro(line)
            /\ ExpandOutcome(line).err = "nil"
            /\ ~ExpandOutcome(line).showOnly
            /\ shortcutNesting' = shortcutNesting + 1]_vars

\* a pending line has been consumed at depth 2
C3_Witness ==
    /\ pc = "Execute"
    /\ inputSrc = "pending"
    /\ shortcutNesting = 2
    /\ pendingShortcut = Nil
    /\ line = L_runA

\* C4: with no handle, the step of Execute on a packet line returns the
\* not-connected error, makes no transport call and changes no field of
\* the session.
C4_PacketWhileDisconnected ==
    [][(pc = "Execute" /\ IsPacketLine(line) /\ EndPoint = NilEndPoint
            /\ pc' # "Execute")
         => /\ err' = "NotConnected"
            /\ pc' = "GetInput"
            /\ calls' = <<>>
            /\ UNCHANGED <<session, conns, notify, store>>]_vars

C4_Witness ==
    /\ pc = "GetInput"
    /\ line = L_req
    /\ err = "NotConnected"
    /\ EndPoint = NilEndPoint
    /\ calls = <<>>

\* Dial is logged before the Close of connection c
DialBeforeClose(log, c) ==
    \E i, j \in DOMAIN log :
        /\ i < j
        /\ log[i].op = "Dial"
        /\ log[j].op = "Close"
        /\ log[j].conn = c

\* C5, as stated: when the new address has been dialed and the session still
\* holds the old handle, the old connection has already been closed.
C5_CloseBeforeDial ==
    (pc = "connect" /\ EndPoint # NilEndPoint) =>
        \E i \in DOMAIN calls : calls[i].op = "Close"

\* C5, amended: for a connect command issued while a connection is active,
\* the new address is dialed first; after a successful dial the old
\* connection is closed before the handle is replaced; when that close
\* succeeds the handle is the new connection, and when it fails the command
\* fails and the session holds no handle.
C5_DialThenCloseThenReplace ==
    [][(pc = "connect" /\ pc' # "connect" /\ EndPoint # NilEndPoint)
         => /\ DialBeforeClose(calls', EndPoint.conn)
            /\ conns'[EndPoint.conn].status = "closed"
            /\ IF err' = "nil"
               THEN EndPoint' = NewEndPoint(Name, connection)
               ELSE EndPoint' = NilEndPoint /\ err' = "CloseError"]_vars

\* a reconnect has completed: Dial, then Close of the old connection
C5_Witness ==
    /\ pc = "GetInput"
    /\ line = L_connectH
    /\ err = "nil"
    /\ Len(calls) = 2
    /\ calls[1].op = "Dial"
    /\ calls[2].op = "Close"
    /\ EndPoint # NilEndPoint
    /\ EndPoint.conn # calls[2].conn
    /\ conns[calls[2].conn].status = "closed"

\* C6, as stated: a step of a callback of the transport (packet received,
\* close) changes no field of the session.
C6_CallbacksOnlyDisplay ==
    [][(\E c \in ConnIds : OnPacketReceived(c) \/ OnClose(c))
         => UNCHANGED session]_vars

\* C7, as stated: no line aborts the process.
C7_NoAbort == pc # "Panic"

(***************************************************************************)
(* The reference substitution of a template: each "$" followed by a digit, *)
(* not preceded by a backslash, is replaced with its digit by the argument *)
(* of that index; index 0 or an index beyond the arguments fails; every    *)
(* other character is copied.                                              *)
(***************************************************************************)
IsDigit(c) == Code(c) \in 48..57

RECURSIVE RefFrom(_, _, _, _)
RefFrom(t, as, i, acc) ==
    IF i > Len(t) THEN [err |-> "nil", result |-> acc]
    ELSE IF /\ t[i] = "$"
            /\ i < Len(t)
            /\ IsDigit(t[i + 1])
            /\ (i = 1 \/ t[i - 1] # "\\")
    THEN LET d == Code(t[i + 1]) - 48
         IN  IF d = 0 \/ d > Len(as)
             THEN [err |-> "InvalidArgument", result |-> acc]
             ELSE RefFrom(t, as, i + 2, acc \o as[d])
    ELSE RefFrom(t, as, i + 1, Append(acc, t[i]))

RefExpand(t, as) == RefFrom(t, as, 1, <<>>)

\* the arguments of the macro line
LineArgs == Tail(Split(Tail(line)).fields)

\* C8, as stated: the expansion of the template equals the reference
\* substitution, and a failed expansion pushes nothing.
C8_ExpansionIsReference ==
    pc = "GetInput" =>
        LET ref == RefExpand(Shortcuts[Str_p], LineArgs)
        IN  IF ref.err # "nil"
            THEN err = "InvalidArgument" /\ pendingShortcut = Nil
            ELSE err = "nil" /\ pendingShortcut = Ptr(ref.result)

\* every "$" of t is the last character, is followed by a character that is
\* not a digit, or is preceded by a backslash
OnlyLiteralDollars(t) ==
    \A i \in 1..Len(t) :
        t[i] = "$" =>
            \/ i = Len(t)
            \/ ~IsDigit(t[i + 1])
            \/ i > 1 /\ t[i - 1] = "\\"

\* C9, as stated: a template whose "$" are all literal or escaped expands
\* without an error to itself.
C9_LiteralDollarCopied ==
    (pc = "GetInput" /\ OnlyLiteralDollars(Shortcuts[Str_p])) =>
        err = "nil" /\ pendingShortcut = Ptr(Shortcuts[Str_p])

\* the line is a preview of a defined shortcut
IsPreview(l) ==
    /\ IsMacro(l)
    /\ LET sp == Split(Tail(l))
       IN  /\ sp.err = "nil"
           /\ sp.fields[1] # <<>>
           /\ sp.fields[1][1] = "?"
           /\ Tail(sp.fields[1]) \in DOMAIN Shortcuts

\* C10: the step of Execute on a preview of a defined shortcut displays the
\* expansion and returns to GetInput with an empty buffer; it changes no
\* field of the session, the store or the connections and makes no
\* transport call.
C10_PreviewOnlyDisplays ==
    [][(pc = "Execute" /\ IsPreview(line) /\ pc' # "Execute")
         => /\ pc' = "GetInput"
            /\ pendingShortcut' = Nil
            /\ err' = "nil" => out'.tag = "Preview"
            /\ calls' = <<>>
            /\ UNCHANGED <<session, conns, notify, store>>]_vars

C10_Witness ==
    /\ pc = "GetInput"
    /\ line = L_previewA
    /\ err = "nil"
    /\ out = Msg("Preview", <<"@", "a">>, <<>>)
    /\ pendingShortcut = Nil
    /\ shortcutNesting = 0

\* the tokens of a shortcut command: strings.SplitN(line, " ", 3)
ShortcutTokens(l) == StrSplitN(l, " ", 3)

IsDefine(l) == IsCommand(l) /\ Len(ShortcutTokens(l)) = 3
IsShow(l) == IsCommand(l) /\ Len(ShortcutTokens(l)) = 2

\* C11, as stated: a define command stores the definition under the name,
\* a show command of a defined name reports exactly the stored definition,
\* and a restart on the store that saveShortcuts wrote for the table in
\* memory loads a table equal to that table.
C11_DefineShowRestart ==
    /\ [][(IsCmd("s") /\ IsDefine(line) /\ pc' # "Execute")
            => /\ ShortcutTokens(line)[2] \in DOMAIN Shortcuts'
               /\ Shortcuts'[ShortcutTokens(line)[2]] = ShortcutTokens(line)[3]]_vars
    /\ [][(IsCmd("s") /\ IsShow(line) /\ pc' # "Execute"
             /\ ShortcutTokens(line)[2] \in DOMAIN Shortcuts)
            => out' = Msg("Defined", ShortcutTokens(line)[2],
                          Shortcuts[ShortcutTokens(line)[2]])]_vars
    /\ [][(pc = "Quit" /\ pc' = "GetInput"
             /\ store = {n \o <<":">> \o Shortcuts[n] : n \in DOMAIN Shortcuts})
            => Shortcuts' = Shortcuts]_vars

\* the line starts, after its leading blanks, with the request marker
HasRequestMark(l) == Trim(l) # <<>> /\ Trim(l)[1] = "?"

\* C12: while connected, the step of Execute on a packet line that parses
\* makes exactly one transport call on the handle: a Send of a root element
\* named Message, after which the loop is back at GetInput, when the line
\* has no leading request marker, and a Submit of a root element named
\* Request, after which the loop waits, when it has one.  While the loop
\* waits it reads no line and makes no call; the wait ends with the reply
\* displayed or with the timeout or transport error reported, and the loop
\* is back at GetInput.
C12_SendOrSubmit ==
    /\ [][(pc = "Execute" /\ IsPacketLine(line) /\ EndPoint # NilEndPoint
             /\ parsePacketCommand(line).err = "nil" /\ pc' # "Execute")
            => /\ Len(calls') = 1
               /\ calls'[1].conn = EndPoint.conn
               /\ IF HasRequestMark(line)
                  THEN /\ calls'[1].op = "Submit"
                       /\ calls'[1].element.Name = Str_Request
                       /\ pc' = "SubmitWait"
                  ELSE /\ calls'[1].op = "Send"
                       /\ calls'[1].element.Name = Str_Message
                       /\ pc' = "GetInput"
                       /\ err' \in {"nil", "TransportError"}]_vars
    /\ [][pc = "SubmitWait"
            => /\ line' = line
               /\ calls' = calls
               /\ inputSrc' = inputSrc
               /\ \/ pc' = "SubmitWait"
                  \/ /\ pc' = "GetInput"
                     /\ err' \in {"nil", "Timeout", "TransportError"}
                     /\ out' = IF err' = "nil" THEN Say("GotReply")
                               ELSE Say("Error")]_vars

\* a request has been submitted once and its wait has ended with a timeout
C12_Witness ==
    /\ pc = "GetInput"
    /\ line = L_req
    /\ err = "Timeout"
    /\ Len(calls) = 1
    /\ calls[1].op = "Submit"
    /\ calls[1].element.Name = Str_Request
    /\ EndPoint # NilEndPoint

\* the positions of the main goroutine while the loop runs
LoopPositions == {"GetInput", "Execute", "connect", "LoginWait", "SubmitWait"}

\* C13, as stated: the loop ends in Quit only by the step of a quit
\* command, and that step leaves no handle and the connection of the
\* handle closed; every other step of the loop leaves it running, back at
\* GetInput or inside the command it executes.
C13_QuitIffQuitCommand ==
    /\ [][(pc # "Quit" /\ pc' = "Quit") => IsCmd("q")]_vars
    /\ [][(IsCmd("q") /\ pc' # pc)
            => /\ pc' = "Quit"
               /\ EndPoint' = NilEndPoint
               /\ EndPoint # NilEndPoint
                    => conns'[EndPoint.conn].status = "closed"]_vars
    /\ [][(pc \in LoopPositions /\ pc' # pc /\ ~IsCmd("q"))
            => pc' \in LoopPositions]_vars

\* the login command, with the name its request is required to carry: with
\* no handle it fails with the not-connected error, makes no transport call
\* and keeps the peer name; with a handle it submits one request of type
\* _Login carrying that name and waits; the peer name changes only in the
\* step that ends the wait without an error
LoginContract(carried) ==
    /\ (IsCmd("l") /\ pc' # pc) =>
          IF EndPoint = NilEndPoint
          THEN /\ err' = "NotConnectedLogin"
               /\ pc' = "GetInput"
               /\ calls' = <<>>
               /\ connectedTo' = connectedTo
          ELSE /\ pc' = "LoginWait"
               /\ Len(calls') = 1
               /\ calls'[1].op = "Submit"
               /\ calls'[1].conn = EndPoint.conn
               /\ calls'[1].element.Name = Str_Request
               /\ calls'[1].element.Attributes[Str_Type] = Str_Login
               /\ calls'[1].element.Attributes[Str_Name] = carried
               /\ connectedTo' = connectedTo
    /\ pc = "LoginWait" =>
          /\ calls' = calls
          /\ pc' # pc => /\ pc' = "GetInput"
                         /\ err' \in {"nil", "Timeout", "TransportError"}
    /\ connectedTo' # connectedTo => pc = "LoginWait" /\ err' = "nil"

\* C14, as stated: the login request carries the name of the session, as
\* last set by the name command.
C14_LoginCarriesSessionName == [][LoginContract(Name)]_vars

\* C14, amended: the login request carries the name of the handle, which is
\* the name the session had when the connection was made; a name command
\* given after the connect does not change it.
C14_LoginCarriesEndPointName ==
    /\ [][LoginContract(EndPoint.name)]_vars
    /\ [][(pc = "connect" /\ pc' # pc /\ EndPoint' # NilEndPoint)
            => EndPoint'.name = Name]_vars
    /\ [][(IsCmd("n") /\ EndPoint # NilEndPoint /\ pc' # pc /\ pc' # "Panic")
            => EndPoint' = EndPoint]_vars

\* a login has been submitted after the name was changed on a live handle
C14_Witness ==
    /\ pc = "LoginWait"
    /\ line = L_login
    /\ Name = <<"u">>
    /\ EndPoint # NilEndPoint
    /\ EndPoint.name = Str_mssh
    /\ Len(calls) = 1
    /\ calls[1].element.Attributes[Str_Name] = Str_mssh

(***************************************************************************)
(* The children a token list opens and closes: a token starting with "<"   *)
(* opens a child (a bare "<" takes the next token as the name of the       *)
(* child, and opens nothing when no token follows), a ">" closes the       *)
(* innermost open child.                                                   *)
(***************************************************************************)
RECURSIVE OpenDepth(_, _, _)
OpenDepth(tokens, i, depth) ==
    IF i > Len(tokens) THEN depth
    ELSE IF tokens[i] # <<>> /\ tokens[i][1] = "<"
    THEN IF Len(tokens[i]) > 1 THEN OpenDepth(tokens, i + 1, depth + 1)
         ELSE IF i = Len(tokens) THEN depth
         ELSE OpenDepth(tokens, i + 2, depth + 1)
    ELSE IF tokens[i] = <<">">> /\ depth > 0
    THEN OpenDepth(tokens, i + 1, depth - 1)
    ELSE OpenDepth(tokens, i + 1, depth)

\* some child opened in the line has no matching ">"
HasUnclosedChild(l) == OpenDepth(LineTokens(l), 2, 0) > 0

\* no token of the line is faulty on its own: none is empty, a token that
\* starts with a quote ends with another one, and a bare "<" is followed
\* by a name
SoundTokens(l) ==
    LET tokens == LineTokens(l) IN
    \A i \in 2..Len(tokens) :
        /\ tokens[i] # <<>>
        /\ tokens[i][1] = "\"" =>
              Len(tokens[i]) >= 2 /\ tokens[i][Len(tokens[i])] = "\""
        /\ tokens[i] = <<"<">> => i < Len(tokens)

\* C15, as stated: while connected, the step of Execute on a packet line
\* with a child that is opened and never closed (and no other faulty
\* token) returns the unterminated-child error, makes no transport call
\* and changes no field of the session and no line of the store.
C15_UnclosedChildFails ==
    [][(pc = "Execute" /\ IsPacketLine(line) /\ EndPoint # NilEndPoint
          /\ HasUnclosedChild(line) /\ SoundTokens(line) /\ pc' # pc)
         => /\ err' = "MissingCloseChild"
            /\ pc' = "GetInput"
            /\ calls' = calls
            /\ UNCHANGED <<session, store>>]_vars

(***************************************************************************)
(* The grammar of a packet line and the tree it denotes: after the type    *)
(* token, NAME=VALUE tokens (split at the first "="), literal tokens       *)
(* (quoted or bare) and child groups "<name ... >" or "< name ... >".      *)
(***************************************************************************)
IsBareName(t) ==
    /\ t # <<>>
    /\ t[1] \notin {"<", ">", "\""}
    /\ ~Contains(t, "=")

RECURSIVE Balanced(_, _, _)
Balanced(tokens, i, depth) ==
    IF i > Len(tokens) THEN depth = 0
    ELSE IF tokens[i] = <<">">>
    THEN depth > 0 /\ Balanced(tokens, i + 1, depth - 1)
    ELSE IF tokens[i][1] = "<"
    THEN IF Len(tokens[i]) > 1 THEN Balanced(tokens, i + 1, depth + 1)
         ELSE /\ i < Len(tokens)
              /\ IsBareName(tokens[i + 1])
              /\ Balanced(tokens, i + 2, depth + 1)
    ELSE Balanced(tokens, i + 1, depth)

WellFormedLine(l) == SoundTokens(l) /\ Balanced(LineTokens(l), 2, 0)

RECURSIVE RefParse(_, _, _)
RefParse(tokens, i, element) ==
    IF i > Len(tokens) \/ tokens[i] = <<">">>
    THEN [next |-> i, element |-> element]
    ELSE LET t == tokens[i] IN
      IF t[1] = "<"
      THEN LET name == IF Len(t) > 1 THEN Tail(t) ELSE tokens[i + 1]
               body == IF Len(t) > 1 THEN i + 1 ELSE i + 2
               child == RefParse(tokens, body, NewElement(name))
           IN  RefParse(tokens, child.next + 1,
                        [element EXCEPT
                           !.Children = Append(@, ChildElement(child.element))])
      ELSE IF t[1] # "\"" /\ Contains(t, "=")
      THEN LET eq == IndexOf(t, "=")
           IN  RefParse(tokens, i + 1,
                        [element EXCEPT
                           !.Attributes = MapSet(@, SubSeq(t, 1, eq - 1), Drop(t, eq))])
      ELSE IF t[1] = "\""
      THEN RefParse(tokens, i + 1,
                    [element EXCEPT
                       !.Children = Append(@, ChildValue(SubSeq(t, 2, Len(t) - 1)))])
      ELSE RefParse(tokens, i + 1,
                    [element EXCEPT !.Children = Append(@, ChildValue(t))])

\* the tree a well-formed line denotes
RefElement(l) ==
    LET tokens == LineTokens(l)
        root == [NewElement(IF HasRequestMark(l) THEN Str_Request ELSE Str_Message)
                    EXCEPT !.Attributes = MapSet(@, Str_Type, tokens[1])]
    IN  RefParse(tokens, 2, root).element

\* C16, as stated: while connected, the step of Execute on a well-formed
\* packet line makes one transport call whose element is the tree the line
\* denotes: every NAME=VALUE token an attribute with its full value, every
\* literal and child group a child, in the order of the tokens.
C16_TreeIsLossless ==
    [][(pc = "Execute" /\ IsPacketLine(line) /\ EndPoint # NilEndPoint
          /\ WellFormedLine(line) /\ pc' # pc)
         => /\ Len(calls') = 1
            /\ calls'[1].element = RefElement(line)]_vars

\* the line is the type token m followed by one double-quoted span whose
\* text holds no quote
IsQuotedSpanLine(l) ==
    /\ Len(l) >= 4
    /\ SubSeq(l, 1, 3) = <<"m", " ", "\"">>
    /\ l[Len(l)] = "\""
    /\ ~Contains(SubSeq(l, 4, Len(l) - 1), "\"")

SpanText(l) == SubSeq(l, 4, Len(l) - 1)

\* C17, as stated: while connected, the step of Execute on a line carrying
\* one double-quoted span makes one transport call whose element has
\* exactly one child, the literal value that is the text of the span.
C17_QuotedSpanIsOneChild ==
    [][(pc = "Execute" /\ EndPoint # NilEndPoint /\ IsQuotedSpanLine(line)
          /\ pc' # pc)
         => /\ Len(calls') = 1
            /\ calls'[1].element.Children = <<ChildValue(SpanText(line))>>]_vars

\* the position at which the top-level parseTokens stops on the line
TopLevelStop(l) ==
    parseTokens(LineTokens(l), 2, NewElement(Str_Message)).iToken

\* C19, as stated: a step of Execute that hands a packet to the transport
\* has parsed every token of the line.
C19_NoTokenLeftBehind ==
    [][(pc = "Execute" /\ IsPacketLine(line) /\ Len(calls') > Len(calls))
         => TopLevelStop(line) > Len(LineTokens(line))]_vars

\* C18, as stated: the handle of a connection is replaced or cleared only
\* by a step of a connect, disconnect or quit command, or by the close
\* notification of that same connection; the close notification of another
\* (older) connection leaves it in place.
C18_OldCloseKeepsNewHandle ==
    [][(EndPoint # NilEndPoint /\ EndPoint' # EndPoint)
         => \/ /\ pc' # pc
               /\ pc = "connect" \/ IsCmd("d") \/ IsCmd("q")
            \/ /\ EndPoint.conn \in notify
               /\ EndPoint.conn \notin notify']_vars

\* C20, as stated: every connection that is open is the handle of the
\* session, or is the connection a connect command has just dialed and is
\* about to wrap.
C20_NoLeakedConnection ==
    \A c \in ConnIds :
        conns[c].status = "open" =>
            \/ EndPoint.conn = c
            \/ pc = "connect" /\ connection = c

=============================================================================
